---- MODULE Spec2Model ----
(***************************************************************************)
(* Model of the two Odoo -> Google Sheets pipelines, PO_data_fetch.py      *)
(* (purchase orders) and expns_master.py (expense sheets): login, the      *)
(* paginated web_search_read loop, the flattening of parent records into   *)
(* one row per child line through safe_str, and paste_to_gsheet.           *)
(*                                                                         *)
(* Python values are tagged records [t |-> tag, v |-> payload]; a dict is  *)
(* the sequence of its <<key, value>> items in insertion order.            *)
(***************************************************************************)
EXTENDS Integers, Sequences, FiniteSets, TLC

VARIABLES
    nfield, nsub, nresult, npc,
    script, server, sheet, sheet0, now, runs,
    pc, uid, offset, all_records, requests, df, ops, skipped, failed, prev

nvars == <<nfield, nsub, nresult, npc>>
pvars == <<script, server, sheet, sheet0, now, runs,
           pc, uid, offset, all_records, requests, df, ops, skipped, failed,
           prev>>
vars == <<nfield, nsub, nresult, npc,
          script, server, sheet, sheet0, now, runs,
          pc, uid, offset, all_records, requests, df, ops, skipped, failed,
          prev>>

(***************************************************************************)
(* Bounds of the model.                                                    *)
(***************************************************************************)
MaxListLen == 3
MaxDictLen == 2
MaxFullPages == 2
MaxChildren == 2
MaxRuns == 2

(***************************************************************************)
(* Python values.                                                          *)
(***************************************************************************)
None == [t |-> "none", v |-> 0]
MkBool(b) == [t |-> "bool", v |-> b]
MkInt(n) == [t |-> "int", v |-> n]
MkFloat(w, d) == [t |-> "float", v |-> <<w, d>>]
MkStr(s) == [t |-> "str", v |-> s]
MkList(xs) == [t |-> "list", v |-> xs]
MkDict(items) == [t |-> "dict", v |-> items]

Digits == <<"0", "1", "2", "3", "4", "5", "6", "7", "8", "9">>

\* str(n) of an int: its decimal digits, with a leading minus sign.
RECURSIVE DecStr(_)
DecStr(n) ==
    IF n < 0 THEN "-" \o DecStr(0 - n)
    ELSE IF n < 10 THEN Digits[n + 1]
    ELSE DecStr(n \div 10) \o Digits[(n % 10) + 1]

\* sep.join(strs)
RECURSIVE Join(_, _)
Join(strs, sep) ==
    IF Len(strs) = 0 THEN ""
    ELSE IF Len(strs) = 1 THEN strs[1]
    ELSE strs[1] \o sep \o Join(Tail(strs), sep)

\* repr(x): what str() of a container shows for its elements.
RECURSIVE PyRepr(_)
PyRepr(x) ==
    CASE x.t = "none" -> "None"
      [] x.t = "bool" -> IF x.v THEN "True" ELSE "False"
      [] x.t = "int" -> DecStr(x.v)
      [] x.t = "float" -> DecStr(x.v[1]) \o "." \o DecStr(x.v[2])
      [] x.t = "str" -> "'" \o x.v \o "'"
      [] x.t = "list" ->
            "[" \o Join([i \in 1..Len(x.v) |-> PyRepr(x.v[i])], ", ") \o "]"
      [] x.t = "dict" ->
            "{" \o Join([i \in 1..Len(x.v) |->
                           "'" \o x.v[i][1] \o "': " \o PyRepr(x.v[i][2])], ", ")
                \o "}"

\* str(x): a str is itself, everything else is shown as repr shows it.
PyStr(x) == IF x.t = "str" THEN x.v ELSE PyRepr(x)

\* bool(x): None, False, zero and empty containers are falsy.
Truthy(x) ==
    CASE x.t = "none" -> FALSE
      [] x.t = "bool" -> x.v
      [] x.t = "int" -> x.v # 0
      [] x.t = "float" -> x.v # <<0, 0>>
      [] x.t = "str" -> x.v # ""
      [] x.t = "list" -> Len(x.v) > 0
      [] x.t = "dict" -> Len(x.v) > 0

\* isinstance(x, (int, float)): bool is a subclass of int.
IsIntOrFloat(x) == x.t \in {"int", "float", "bool"}

\* x in (False, None): membership by ==, and False == 0 == 0.0.
InFalseNone(x) ==
    \/ x.t = "none"
    \/ x.t = "bool" /\ ~x.v
    \/ x.t = "int" /\ x.v = 0
    \/ x.t = "float" /\ x.v = <<0, 0>>

\* key in d
HasKey(items, key) == \E i \in 1..Len(items) : items[i][1] = key

\* d.get(key, default)
DictGet(items, key, default) ==
    IF HasKey(items, key)
    THEN items[CHOOSE i \in 1..Len(items) : items[i][1] = key][2]
    ELSE default

\* d.values()
DictValues(items) == [i \in 1..Len(items) |-> items[i][2]]

(***************************************************************************)
(* safe_str, the field normalizer, identical in both scripts.              *)
(***************************************************************************)
RECURSIVE safe_str(_, _)

\* The precedence with display_name tested before the requested subfield.
safe_str_display_first(field, subfield) ==
    IF field.t = "dict" THEN
        IF HasKey(field.v, "display_name")
        THEN MkStr(PyStr(DictGet(field.v, "display_name", MkStr(""))))
        ELSE IF Truthy(subfield)
        THEN safe_str(DictGet(field.v, subfield.v, None), None)
        ELSE MkStr(Join([i \in 1..Len(field.v) |-> PyStr(field.v[i][2])], " "))
    ELSE IF field.t = "list" /\ Len(field.v) = 2 THEN
        IF Truthy(field.v[2]) THEN MkStr(PyStr(field.v[2])) ELSE MkStr("")
    ELSE IF IsIntOrFloat(field) THEN MkStr(PyStr(field))
    ELSE IF InFalseNone(field) THEN MkStr("")
    ELSE MkStr(PyStr(field))

safe_str(field, subfield) ==
    IF field.t = "dict" THEN
        IF Truthy(subfield)
        THEN safe_str(DictGet(field.v, subfield.v, None), None)
        ELSE IF HasKey(field.v, "display_name")
        THEN MkStr(PyStr(DictGet(field.v, "display_name", MkStr(""))))
        ELSE MkStr(Join([i \in 1..Len(DictValues(field.v)) |->
                          PyStr(DictValues(field.v)[i])], " "))
    ELSE IF field.t = "list" /\ Len(field.v) = 2 THEN
        IF Truthy(field.v[2]) THEN MkStr(PyStr(field.v[2])) ELSE MkStr("")
    ELSE IF IsIntOrFloat(field) THEN MkStr(PyStr(field))
    ELSE IF InFalseNone(field) THEN MkStr("")
    ELSE MkStr(PyStr(field))

(***************************************************************************)
(* The normalizer applied to one input: the inputs of safe_str are drawn   *)
(* from the shapes the API returns (scalars, false for an unset field,     *)
(* lists, nested mappings).                                                *)
(***************************************************************************)
Atoms ==
    {None, MkBool(TRUE), MkBool(FALSE), MkInt(0), MkInt(7), MkInt(-12),
     MkFloat(0, 0), MkFloat(2, 5), MkStr(""), MkStr("Acme")}

ListElems == {None, MkBool(FALSE), MkInt(7), MkStr(""), MkStr("Acme")}

Lists == {MkList(xs) : xs \in UNION {[1..k -> ListElems] : k \in 0..MaxListLen}}

DictKeys == {"display_name", "name", "a"}

DictVals ==
    {None, MkBool(FALSE), MkInt(1), MkStr("X"),
     MkList(<<MkInt(7), MkStr("Acme")>>),
     MkDict(<<<<"display_name", MkStr("In")>>>>)}

Dicts ==
    {MkDict(items) : items \in
        {d \in UNION {[1..k -> DictKeys \X DictVals] : k \in 0..MaxDictLen} :
            \A i, j \in 1..Len(d) : i # j => d[i][1] # d[j][1]}}

FieldInputs == Atoms \cup Lists \cup Dicts

SubfieldInputs ==
    {None, MkStr(""), MkStr("name"), MkStr("display_name"), MkStr("zz")}

Unset == [t |-> "unset", v |-> 0]

NormIdle ==
    /\ nfield = Unset
    /\ nsub = Unset
    /\ nresult = Unset
    /\ npc = "idle"

\* result = safe_str(field, subfield)
Normalize ==
    /\ npc = "call"
    /\ nresult' = safe_str(nfield, nsub)
    /\ npc' = "done"
    /\ UNCHANGED <<nfield, nsub>>
    /\ UNCHANGED pvars

(***************************************************************************)
(* The remote API: the server holds server.n parent records, numbered      *)
(* from 1 in its own order.  Only the parents next to a page boundary      *)
(* carry child lines, as many as server.pattern says; a parent without     *)
(* lines has an empty list or no such key at all.                          *)
(***************************************************************************)
batch_size == 2000

\* Totals below one page, and totals of whole pages plus a remainder.
SmallCounts == {0, 1, 2, 3}

LargeCounts == {k * batch_size + d : k \in 1..MaxFullPages, d \in {0, 500}}

\* Lines per parent, by the parity of the parent's number.
SmallPatterns ==
    {<<0, 0>>} \cup {<<c, 0>> : c \in 1..MaxChildren}
               \cup {<<c - 1, c>> : c \in 1..MaxChildren}

LargePatterns == {<<0, 0>>, <<MaxChildren, 1>>}

SmallServers == [n : SmallCounts, pattern : SmallPatterns]

LargeServers == [n : LargeCounts, pattern : LargePatterns]

Scripts == {"po", "expns"}

ChildKey(s) == IF s = "po" THEN "order_line" ELSE "expense_line_ids"

ChildCount(srv, i) ==
    IF (i % batch_size) \in {0, 1, 2}
    THEN srv.pattern[((i - 1) % 2) + 1]
    ELSE 0

ChildName(i, j) == "L" \o DecStr(i) \o "." \o DecStr(j)

Label(s) == MkDict(<<<<"id", MkInt(1)>>, <<"display_name", MkStr(s)>>>>)

\* An order line: the first line of a parent has every field set, the
\* others have fields unset (false), null or missing.
PoLine(i, j) ==
    IF j = 1 THEN
        MkDict(<<
            <<"id", MkInt(10 * i + j)>>,
            <<"company_id", Label("Co")>>,
            <<"create_date", MkStr("2024-01-05 10:00:00")>>,
            <<"exp_consum_date", MkStr("2024-02-01")>>,
            <<"date_approve", MkStr("2024-01-06 09:30:00")>>,
            <<"order_id", Label("PO" \o DecStr(i))>>,
            <<"po_type", Label("Local")>>,
            <<"itemtypes", Label("Raw")>>,
            <<"currency_id", Label("USD")>>,
            <<"item_category", Label("Yarn")>>,
            <<"name", MkStr(ChildName(i, j))>>,
            <<"partner_id", Label("Acme")>>,
            <<"incoterm_id", Label("FOB")>>,
            <<"payment_term_id", Label("30 Days")>>,
            <<"shipment_mode", Label("Sea")>>,
            <<"product_uom_qty", MkFloat(2, 5)>>,
            <<"price_subtotal", MkFloat(12, 0)>>,
            <<"state", MkStr("purchase")>> >>)
    ELSE
        MkDict(<<
            <<"id", MkInt(10 * i + j)>>,
            <<"company_id", MkList(<<MkInt(3), MkStr("Co")>>)>>,
            <<"exp_consum_date", MkBool(FALSE)>>,
            <<"date_approve", None>>,
            <<"order_id", Label("PO" \o DecStr(i))>>,
            <<"po_type", MkBool(FALSE)>>,
            <<"currency_id", MkDict(<<<<"id", MkInt(1)>>>>)>>,
            <<"name", MkStr(ChildName(i, j))>>,
            <<"partner_id", MkList(<<MkInt(7), MkStr("")>>)>>,
            <<"incoterm_id", MkBool(FALSE)>>,
            <<"price_subtotal", MkBool(FALSE)>>,
            <<"state", MkInt(0)>> >>)

ExpnsLine(i, j) ==
    IF j = 1 THEN
        MkDict(<<
            <<"id", MkInt(10 * i + j)>>,
            <<"date", MkStr("2024-03-01")>>,
            <<"create_date", MkStr("2024-03-02 08:00:00")>>,
            <<"product_id", MkDict(<<<<"id", MkInt(4)>>,
                                     <<"default_code", MkStr("E01")>>,
                                     <<"name", MkStr("Travel")>>>>)>>,
            <<"super_category_id", Label("Admin")>>,
            <<"name", MkStr(ChildName(i, j))>>,
            <<"department_id", Label("HR")>>,
            <<"predicted_category", Label("Fuel")>>,
            <<"state", MkStr("approved")>>,
            <<"total_amount", MkFloat(99, 5)>>,
            <<"total_amount_currency", MkFloat(99, 5)>> >>)
    ELSE IF j = 2 THEN
        MkDict(<<
            <<"id", MkInt(10 * i + j)>>,
            <<"date", MkBool(FALSE)>>,
            <<"product_id", MkDict(<<<<"id", MkInt(5)>>,
                                     <<"default_code", MkBool(FALSE)>>,
                                     <<"name", MkStr("Meal")>>>>)>>,
            <<"super_category_id", MkBool(FALSE)>>,
            <<"name", MkStr(ChildName(i, j))>>,
            <<"department_id", None>>,
            <<"state", MkStr("draft")>>,
            <<"total_amount", MkInt(0)>> >>)
    ELSE
        MkDict(<<
            <<"id", MkInt(10 * i + j)>>,
            <<"product_id", MkBool(FALSE)>>,
            <<"name", MkStr(ChildName(i, j))>>,
            <<"total_amount_currency", None>> >>)

Line(s, i, j) == IF s = "po" THEN PoLine(i, j) ELSE ExpnsLine(i, j)

\* The i-th parent record the server holds, as web_search_read returns it.
ServerRecord(s, srv, i) ==
    LET n == ChildCount(srv, i)
        head == IF s = "po"
                THEN <<<<"id", MkInt(i)>>>>
                ELSE <<<<"id", MkInt(i)>>,
                       <<"code", IF i % 2 = 1 THEN MkStr("EXP" \o DecStr(i))
                                 ELSE MkBool(FALSE)>>>>
    IN  IF n = 0 /\ i % 2 = 1
        THEN MkDict(head)
        ELSE MkDict(Append(head,
                 <<ChildKey(s), MkList([j \in 1..n |-> Line(s, i, j)])>>))

\* result.get("records", []) of the page asked with offset and limit.
ServerPage(s, srv, off, limit) ==
    LET left == IF srv.n > off THEN srv.n - off ELSE 0
        k == IF left < limit THEN left ELSE limit
    IN  [r \in 1..k |-> ServerRecord(s, srv, off + r)]

(***************************************************************************)
(* Flattening: one row per child line, a row being the dict literal of     *)
(* the script (its items in the order written).                            *)
(***************************************************************************)
\* d.get(key) on a record of the API
Get(d, key) == DictGet(d.v, key, None)

\* The row without the columns whose source field the line lacks.
po_row_sparse(line) ==
    LET cols == <<
            <<"Company", "company_id">>, <<"Created on", "create_date">>,
            <<"Consumption Date", "exp_consum_date">>,
            <<"PO Approved Date", "date_approve">>,
            <<"Order Reference", "order_id">>, <<"PO Type", "po_type">>,
            <<"Item Type", "itemtypes">>, <<"Currency", "currency_id">>,
            <<"Item Category", "item_category">>, <<"Description", "name">>,
            <<"Partner", "partner_id">>, <<"Inco Term", "incoterm_id">>,
            <<"Payment Term", "payment_term_id">>,
            <<"Shipment Mode", "shipment_mode">>,
            <<"Total Quantity", "product_uom_qty">>,
            <<"Subtotal", "price_subtotal">>, <<"Status", "state">> >>
        present == SelectSeq(cols, LAMBDA c : HasKey(line.v, c[2]))
    IN  [k \in 1..Len(present) |->
            <<present[k][1],
              IF present[k][1] \in {"Total Quantity", "Subtotal"}
              THEN Get(line, present[k][2])
              ELSE safe_str(Get(line, present[k][2]), None)>>]

po_row(line) ==
    << <<"Company", safe_str(Get(line, "company_id"), None)>>,
       <<"Created on", safe_str(Get(line, "create_date"), None)>>,
       <<"Consumption Date", safe_str(Get(line, "exp_consum_date"), None)>>,
       <<"PO Approved Date", safe_str(Get(line, "date_approve"), None)>>,
       <<"Order Reference", safe_str(Get(line, "order_id"), None)>>,
       <<"PO Type", safe_str(Get(line, "po_type"), None)>>,
       <<"Item Type", safe_str(Get(line, "itemtypes"), None)>>,
       <<"Currency", safe_str(Get(line, "currency_id"), None)>>,
       <<"Item Category", safe_str(Get(line, "item_category"), None)>>,
       <<"Description", safe_str(Get(line, "name"), None)>>,
       <<"Partner", safe_str(Get(line, "partner_id"), None)>>,
       <<"Inco Term", safe_str(Get(line, "incoterm_id"), None)>>,
       <<"Payment Term", safe_str(Get(line, "payment_term_id"), None)>>,
       <<"Shipment Mode", safe_str(Get(line, "shipment_mode"), None)>>,
       <<"Total Quantity", DictGet(line.v, "product_uom_qty", MkInt(0))>>,
       <<"Subtotal", DictGet(line.v, "price_subtotal", MkInt(0))>>,
       <<"Status", safe_str(Get(line, "state"), None)>> >>

\* product is a mapping or falsy in what the API returns for product_id.
expns_category(line) ==
    LET product == DictGet(line.v, "product_id", MkDict(<<>>))
    IN  IF Truthy(product)
        THEN MkStr("["
                 \o safe_str(DictGet(product.v, "default_code", MkStr("")), None).v
                 \o "] "
                 \o safe_str(DictGet(product.v, "name", MkStr("")), None).v)
        ELSE MkStr("")

expns_row(rec, line) ==
    << <<"Number", safe_str(Get(rec, "code"), None)>>,
       <<"Expense Date", safe_str(Get(line, "date"), None)>>,
       <<"Creted Date", safe_str(Get(line, "create_date"), None)>>,
       <<"Category", expns_category(line)>>,
       <<"Super Category", safe_str(Get(line, "super_category_id"), None)>>,
       <<"Description", safe_str(Get(line, "name"), None)>>,
       <<"Department", safe_str(Get(line, "department_id"), None)>>,
       <<"ID", safe_str(Get(line, "id"), None)>>,
       <<"Predicted Category", safe_str(Get(line, "predicted_category"), None)>>,
       <<"Status", safe_str(Get(line, "state"), None)>>,
       <<"Total", DictGet(line.v, "total_amount", MkInt(0))>>,
       <<"Total In Currency", DictGet(line.v, "total_amount_currency", MkInt(0))>> >>

\* The inner loop with the lines taken last to first.
rows_of_reversed(s, rec) ==
    LET lines == DictGet(rec.v, ChildKey(s), MkList(<<>>)).v
        n == Len(lines)
    IN  [j \in 1..n |->
            IF s = "po" THEN po_row(lines[n + 1 - j])
            ELSE expns_row(rec, lines[n + 1 - j])]

\* The inner loop: the rows one parent appends, in the order of its lines.
rows_of(s, rec) ==
    LET lines == DictGet(rec.v, ChildKey(s), MkList(<<>>)).v
    IN  [j \in 1..Len(lines) |->
            IF s = "po" THEN po_row(lines[j]) ELSE expns_row(rec, lines[j])]

\* The outer loop over records[lo..hi]: the rows of each parent appended in
\* parent order.  The concatenation is associative, so the range is split
\* in halves to keep the evaluation depth logarithmic in its length.
RECURSIVE flatten_range(_, _, _, _)
flatten_range(s, records, lo, hi) ==
    IF lo > hi THEN <<>>
    ELSE IF lo = hi THEN rows_of(s, records[lo])
    ELSE LET mid == (lo + hi) \div 2
         IN  flatten_range(s, records, lo, mid)
                 \o flatten_range(s, records, mid + 1, hi)

\* pd.DataFrame(flat): the rows in order, empty when there is none.
flatten(s, records) == flatten_range(s, records, 1, Len(records))

(***************************************************************************)
(* The destination worksheet: the non-blank cells, <<row, column>> to      *)
(* value.                                                                  *)
(***************************************************************************)
Alphabet ==
    <<"A", "B", "C", "D", "E", "F", "G", "H", "I", "J", "K", "L", "M",
      "N", "O", "P", "Q", "R", "S", "T", "U", "V", "W", "X", "Y", "Z">>

\* The column number of a column letter (A1 notation).
ColumnIndex(letter) == CHOOSE c \in 1..Len(Alphabet) : Alphabet[c] = letter

\* batch_clear(["A:Q"]) in PO_data_fetch.py, ["A:L"] in expns_master.py.
ClearRange(s) == IF s = "po" THEN <<"A", "Q">> ELSE <<"A", "L">>

\* The cell the comments of the scripts name: O1, and L1.
StampCellOfComment(s) == IF s = "po" THEN <<"O", 1>> ELSE <<"L", 1>>

\* update("R1", ...) in PO_data_fetch.py, "M1" in expns_master.py.
StampCell(s) == IF s = "po" THEN <<"R", 1>> ELSE <<"M", 1>>

ClearedColumns(s) ==
    ColumnIndex(ClearRange(s)[1])..ColumnIndex(ClearRange(s)[2])

StampAt(s) == <<StampCell(s)[2], ColumnIndex(StampCell(s)[1])>>

Restrict(f, S) == [c \in S |-> f[c]]

Blank(x) == x = None \/ x = MkStr("")

\* The worksheet with no cell cleared.
LeftUncleared(sh, s) == sh

\* worksheet.batch_clear([range]): every cell of the columns goes blank.
Cleared(sh, s) ==
    Restrict(sh, {c \in DOMAIN sh : c[2] \notin ClearedColumns(s)})

\* set_with_dataframe(worksheet, df, include_index=False,
\* include_column_header=True): from A1, the column names, then the rows.
Written(sh, table) ==
    LET ncols == Len(table[1])
        area == (1..(Len(table) + 1)) \X (1..ncols)
        val(c) == IF c[1] = 1 THEN MkStr(table[1][c[2]][1])
                  ELSE table[c[1] - 1][c[2]][2]
        filled == {c \in area : ~Blank(val(c))}
    IN  [c \in filled \cup (DOMAIN sh \ area) |->
            IF c \in filled THEN val(c) ELSE sh[c]]

\* strftime("%Y-%m-%d %H:%M:%S") of the t-th second of the model's clock.
TimeStr(t) == "2026-01-01 00:00:" \o (IF t < 10 THEN "0" ELSE "") \o DecStr(t)

\* worksheet.update(cell, [["Last Updated: <local_time>"]])
Stamped(sh, s, t) ==
    [c \in DOMAIN sh \cup {StampAt(s)} |->
        IF c = StampAt(s) THEN MkStr("Last Updated: " \o TimeStr(t))
        ELSE sh[c]]

\* df.empty
DfEmpty(table) == Len(table) = 0

EmptySheet == [c \in {} |-> None]

\* What an earlier run of another day left: a longer table, a stamp, and
\* cells right of the stamp.
StaleSheet ==
    [c \in {<<1, 1>>, <<40, 2>>, <<40, 12>>, <<40, 17>>, <<1, 13>>,
            <<1, 18>>, <<5, 20>>} |-> MkStr("old")]

PriorSheets == {EmptySheet, StaleSheet}

(***************************************************************************)
(* One run of a script (its __main__ block), step by step.                 *)
(***************************************************************************)
NoPrev == [ok |-> FALSE, table |-> <<>>, visible |-> EmptySheet]

\* The state of a process that has just started.
Started ==
    /\ pc = "login"
    /\ uid = Unset
    /\ offset = 0
    /\ all_records = <<>>
    /\ requests = <<>>
    /\ df = <<>>
    /\ ops = <<>>
    /\ skipped = FALSE
    /\ failed = ""

\* The failures of odoo_login: session.post raises, raise_for_status
\* raises, the body has no "result", the result has no "uid".
LoginFailures == {"transport", "http_status", "no_result", "no_uid"}

\* The uid a body {"result": {"uid": ...}} carries: an id, false or null.
LoginUids == {MkInt(2), MkBool(FALSE), None}

\* odoo_login() raises: the run ends with the exception.
LoginFail ==
    /\ pc = "login"
    /\ \E why \in LoginFailures : failed' = "login:" \o why
    /\ pc' = "aborted"
    /\ UNCHANGED <<script, server, sheet, sheet0, now, runs, uid, offset, all_records,
                   requests, df, ops, skipped, prev>>
    /\ UNCHANGED nvars

\* odoo_login() returns resp.json()["result"]["uid"], whatever it is.
LoginReturn ==
    /\ pc = "login"
    /\ \E u \in LoginUids : uid' = u
    /\ offset' = 0
    /\ all_records' = <<>>
    /\ pc' = "fetch"
    /\ UNCHANGED <<script, server, sheet, sheet0, now, runs, requests, df, ops,
                   skipped, failed, prev>>
    /\ UNCHANGED nvars

\* len(records) <= batch_size ends the loop.
PageIsLastOrFull(records) == Len(records) <= batch_size

\* if len(records) < batch_size: break
PageIsLast(records) == Len(records) < batch_size

\* One pass of the while loop whose request succeeds.
FetchPage ==
    /\ pc = "fetch"
    /\ LET records == ServerPage(script, server, offset, batch_size)
       IN  /\ requests' = Append(requests, [offset |-> offset, limit |-> batch_size])
           /\ all_records' = all_records \o records
           /\ IF PageIsLast(records)
              THEN pc' = "flatten" /\ offset' = offset
              ELSE pc' = "fetch" /\ offset' = offset + batch_size
    /\ UNCHANGED <<script, server, sheet, sheet0, now, runs, uid, df, ops, skipped,
                   failed, prev>>
    /\ UNCHANGED nvars

\* The exception swallowed and the loop left: the pages fetched so far
\* go on to be flattened.
AfterFetchFailureSwallowed == "flatten"

\* session.post or raise_for_status raises: nothing catches it.
AfterFetchFailure == "aborted"

\* One pass of the while loop whose request fails.
FetchPageFail ==
    /\ pc = "fetch"
    /\ requests' = Append(requests, [offset |-> offset, limit |-> batch_size])
    /\ pc' = AfterFetchFailure
    /\ failed' = "fetch"
    /\ UNCHANGED <<script, server, sheet, sheet0, now, runs, uid, offset, all_records,
                   df, ops, skipped, prev>>
    /\ UNCHANGED nvars

\* df = flatten_purchase_orders(records) / flatten_expense_sheets(records)
Flatten ==
    /\ pc = "flatten"
    /\ df' = flatten(script, all_records)
    /\ pc' = "open"
    /\ UNCHANGED <<script, server, sheet, sheet0, now, runs, uid, offset, all_records,
                   requests, ops, skipped, failed, prev>>
    /\ UNCHANGED nvars

\* The step after the worksheet is opened with the empty check left out.
AfterOpenNoSkip(table) == "clear"

\* if df.empty: print("Skip ..."); return
AfterOpen(table) == IF DfEmpty(table) THEN "skip" ELSE "clear"

\* gc.open_by_key(GOOGLE_SHEET_ID).worksheet(sheet_name) returns; an empty
\* table ends paste_to_gsheet here, and the run with it.
OpenSheet ==
    /\ pc = "open"
    /\ ops' = Append(ops, "open")
    /\ IF AfterOpen(df) = "skip"
       THEN skipped' = TRUE /\ pc' = "done"
       ELSE skipped' = FALSE /\ pc' = "clear"
    /\ UNCHANGED <<script, server, sheet, sheet0, now, runs, uid, offset, all_records,
                   requests, df, failed, prev>>
    /\ UNCHANGED nvars

\* Opening the worksheet raises: logged and raised again, empty table or not.
OpenSheetFail ==
    /\ pc = "open"
    /\ ops' = Append(ops, "open")
    /\ failed' = "open"
    /\ pc' = "aborted"
    /\ UNCHANGED <<script, server, sheet, sheet0, now, runs, uid, offset, all_records,
                   requests, df, skipped, prev>>
    /\ UNCHANGED nvars

\* worksheet.batch_clear([...]) returns.
ClearSheet ==
    /\ pc = "clear"
    /\ ops' = Append(ops, "clear")
    /\ sheet' = Cleared(sheet, script)
    /\ pc' = "write"
    /\ UNCHANGED <<script, server, sheet0, now, runs, uid, offset, all_records,
                   requests, df, skipped, failed, prev>>
    /\ UNCHANGED nvars

\* worksheet.batch_clear([...]) raises, the range cleared or not.
ClearSheetFail ==
    /\ pc = "clear"
    /\ ops' = Append(ops, "clear")
    /\ sheet' \in {sheet, Cleared(sheet, script)}
    /\ failed' = "clear"
    /\ pc' = "aborted"
    /\ UNCHANGED <<script, server, sheet0, now, runs, uid, offset, all_records,
                   requests, df, skipped, prev>>
    /\ UNCHANGED nvars

\* set_with_dataframe(...) returns.
WriteSheet ==
    /\ pc = "write"
    /\ ops' = Append(ops, "write")
    /\ sheet' = Written(sheet, df)
    /\ pc' = "stamp"
    /\ UNCHANGED <<script, server, sheet0, now, runs, uid, offset, all_records,
                   requests, df, skipped, failed, prev>>
    /\ UNCHANGED nvars

\* set_with_dataframe(...) raises, the table written or not.
WriteSheetFail ==
    /\ pc = "write"
    /\ ops' = Append(ops, "write")
    /\ sheet' \in {sheet, Written(sheet, df)}
    /\ failed' = "write"
    /\ pc' = "aborted"
    /\ UNCHANGED <<script, server, sheet0, now, runs, uid, offset, all_records,
                   requests, df, skipped, prev>>
    /\ UNCHANGED nvars

\* worksheet.update(cell, ...) returns; paste_to_gsheet and the run end.
StampSheet ==
    /\ pc = "stamp"
    /\ ops' = Append(ops, "stamp")
    /\ sheet' = Stamped(sheet, script, now)
    /\ pc' = "done"
    /\ UNCHANGED <<script, server, sheet0, now, runs, uid, offset, all_records,
                   requests, df, skipped, failed, prev>>
    /\ UNCHANGED nvars

\* worksheet.update(cell, ...) raises, the cell written or not.
StampSheetFail ==
    /\ pc = "stamp"
    /\ ops' = Append(ops, "stamp")
    /\ sheet' \in {sheet, Stamped(sheet, script, now)}
    /\ failed' = "stamp"
    /\ pc' = "aborted"
    /\ UNCHANGED <<script, server, sheet0, now, runs, uid, offset, all_records,
                   requests, df, skipped, prev>>
    /\ UNCHANGED nvars

\* Every cell but the timestamp cell.
Visible(sh, s) == Restrict(sh, DOMAIN sh \ {StampAt(s)})

\* The scheduler starts the script again, later, against the same server
\* data; prev keeps what the run before published, if it published, and
\* sheet0 the worksheet as the new run finds it.
Rerun ==
    /\ pc \in {"done", "aborted"}
    /\ runs < MaxRuns
    /\ runs' = runs + 1
    /\ now' = now + 1
    /\ prev' = IF pc = "done" /\ ~skipped
               THEN [ok |-> TRUE, table |-> df, visible |-> Visible(sheet, script)]
               ELSE NoPrev
    /\ pc' = "login"
    /\ uid' = Unset
    /\ offset' = 0
    /\ all_records' = <<>>
    /\ requests' = <<>>
    /\ df' = <<>>
    /\ ops' = <<>>
    /\ skipped' = FALSE
    /\ failed' = ""
    /\ sheet0' = sheet
    /\ UNCHANGED <<script, server, sheet>>
    /\ UNCHANGED nvars

(***************************************************************************)
(* Specifications.                                                         *)
(***************************************************************************)
\* One run of either script, against any server and prior worksheet.
Init ==
    /\ NormIdle
    /\ script \in Scripts
    /\ server \in SmallServers \cup LargeServers
    /\ sheet \in PriorSheets
    /\ sheet0 = sheet
    /\ now = 0
    /\ runs = 1
    /\ prev = NoPrev
    /\ Started

Next ==
    \/ LoginFail
    \/ LoginReturn
    \/ FetchPage
    \/ FetchPageFail
    \/ Flatten
    \/ OpenSheet
    \/ OpenSheetFail
    \/ ClearSheet
    \/ ClearSheetFail
    \/ WriteSheet
    \/ WriteSheetFail
    \/ StampSheet
    \/ StampSheetFail

Spec == Init /\ [][Next]_vars

\* Runs repeated by the scheduler, against a server of less than a page.
InitRepeat ==
    /\ NormIdle
    /\ script \in Scripts
    /\ server \in SmallServers
    /\ sheet \in PriorSheets
    /\ sheet0 = sheet
    /\ now = 0
    /\ runs = 1
    /\ prev = NoPrev
    /\ Started

NextRepeat == Next \/ Rerun

SpecRepeat == InitRepeat /\ [][NextRepeat]_vars

\* safe_str applied once to each input.
InitNorm ==
    /\ nfield \in FieldInputs
    /\ nsub \in SubfieldInputs
    /\ nresult = Unset
    /\ npc = "call"
    /\ script = "po"
    /\ server = [n |-> 0, pattern |-> <<0, 0>>]
    /\ sheet = EmptySheet
    /\ sheet0 = EmptySheet
    /\ now = 0
    /\ runs = 1
    /\ prev = NoPrev
    /\ pc = "idle"
    /\ uid = Unset
    /\ offset = 0
    /\ all_records = <<>>
    /\ requests = <<>>
    /\ df = <<>>
    /\ ops = <<>>
    /\ skipped = FALSE
    /\ failed = ""

NextNorm == Normalize

SpecNorm == InitNorm /\ [][NextNorm]_vars

(***************************************************************************)
(* Properties.                                                             *)
(***************************************************************************)
\* The table has been built: the run is in paste_to_gsheet or past it.
Flattened ==
    \/ pc \in {"open", "clear", "write", "stamp", "done"}
    \/ failed \in {"open", "clear", "write", "stamp"}

\* The destination operations that change the worksheet.
Mutations == {k \in 1..Len(ops) : ops[k] \in {"clear", "write", "stamp"}}

\* C1: safe_str returns the empty string for every input that is the
\* absent sentinel (false) or null, whatever subfield is requested.
C1_AbsentGivesEmpty ==
    (npc = "done" /\ nfield \in {None, MkBool(FALSE)}) => nresult = MkStr("")

\* A subfield name is requested.
SubfieldRequested == Truthy(nsub)

DisplayNameStr == MkStr(PyStr(DictGet(nfield.v, "display_name", MkStr(""))))

SubfieldNormalized == safe_str(DictGet(nfield.v, nsub.v, None), None)

ValuesJoined ==
    MkStr(Join([i \in 1..Len(nfield.v) |-> PyStr(nfield.v[i][2])], " "))

\* C7, as claimed: for a mapping, display_name comes first (even when a
\* subfield is requested), then the requested subfield, then the values
\* joined by single spaces in mapping order.
C7_DisplayNameFirst ==
    (npc = "done" /\ nfield.t = "dict") =>
        nresult = IF HasKey(nfield.v, "display_name") THEN DisplayNameStr
                  ELSE IF SubfieldRequested THEN SubfieldNormalized
                  ELSE ValuesJoined

\* C7, amended: for a mapping, a requested subfield comes first (its
\* normalization, "" when the mapping lacks it), then display_name, then
\* the values joined by single spaces in mapping order.
C7_SubfieldFirst ==
    (npc = "done" /\ nfield.t = "dict") =>
        nresult = IF SubfieldRequested THEN SubfieldNormalized
                  ELSE IF HasKey(nfield.v, "display_name") THEN DisplayNameStr
                  ELSE ValuesJoined

C7_Witness ==
    /\ npc = "done"
    /\ nfield.t = "dict"
    /\ HasKey(nfield.v, "display_name")
    /\ SubfieldRequested
    /\ HasKey(nfield.v, nsub.v)
    /\ nresult = SubfieldNormalized
    /\ nresult # DisplayNameStr

RequestOffsets == [k \in 1..Len(requests) |-> requests[k].offset]

\* C2: against a server holding n records, the loop asks for the pages at
\* offsets 0, B, 2B, ... with limit B, goes on exactly while the pages are
\* full, ends after n \div B + 1 requests at the first short page, and
\* returns the n records in server order; n = 4500 takes the three
\* requests at 0, 2000 and 4000, n = 0 takes one request.
C2_Pagination ==
    /\ pc \in {"fetch", "flatten"} =>
          /\ \A k \in 1..Len(requests) :
                /\ requests[k].offset = (k - 1) * batch_size
                /\ requests[k].limit = batch_size
          /\ \A i \in 1..Len(all_records) :
                all_records[i] = ServerRecord(script, server, i)
    /\ pc = "fetch" =>
          /\ Len(all_records) = Len(requests) * batch_size
          /\ offset = Len(requests) * batch_size
          /\ Len(all_records) <= server.n
    /\ pc = "flatten" =>
          /\ Len(requests) = (server.n \div batch_size) + 1
          /\ Len(all_records) = server.n
          /\ Len(all_records) - (Len(requests) - 1) * batch_size < batch_size
          /\ server.n = 4500 => RequestOffsets = <<0, 2000, 4000>>
          /\ server.n = 0 => RequestOffsets = <<0>> /\ all_records = <<>>
          /\ server.n < batch_size => Len(requests) = 1

C2_Witness ==
    /\ pc = "flatten"
    /\ server.n = 4500
    /\ RequestOffsets = <<0, 2000, 4000>>
    /\ Len(all_records) = 4500

\* C3: a login that yields no usable identity (the call fails, the body
\* carries no uid, or the uid is false or null) aborts the run, with no
\* page request and no destination operation issued.
C3_NoFetchWithoutIdentity ==
    (\/ failed \in {"login:" \o why : why \in LoginFailures}
     \/ uid \in {MkBool(FALSE), None}) =>
        /\ pc = "aborted"
        /\ requests = <<>>
        /\ ops = <<>>

\* C4: a page request that fails, at whichever page, ends the run at once:
\* it is the last request and was issued once, what the earlier pages
\* brought is never flattened, and the worksheet gets no operation.
C4_FetchFailureAborts ==
    failed = "fetch" =>
        /\ pc = "aborted"
        /\ Len(requests) >= 1
        /\ requests[Len(requests)].offset = offset
        /\ \A j, k \in 1..Len(requests) :
              j # k => requests[j].offset # requests[k].offset
        /\ Len(all_records) = (Len(requests) - 1) * batch_size
        /\ df = <<>>
        /\ ops = <<>>
        /\ sheet = sheet0

C4_Witness ==
    /\ failed = "fetch"
    /\ pc = "aborted"
    /\ Len(requests) = 3
    /\ Len(all_records) = 2 * batch_size
    /\ sheet = StaleSheet

\* C5, as claimed: with an empty table the publisher clears, writes and
\* stamps nothing, leaves the worksheet as it was, and the run reports a
\* skip and ends successfully, never in an error.
C5_EmptyTableSkips ==
    (Flattened /\ DfEmpty(df)) =>
        /\ Mutations = {}
        /\ sheet = sheet0
        /\ pc # "aborted"
        /\ pc = "done" => skipped

\* C5, amended: with an empty table the publisher clears, writes and
\* stamps nothing and leaves the worksheet as it was; the run reports a
\* skip and ends successfully once the worksheet has been opened, and
\* ends in an error only when opening the worksheet fails.
C5_EmptyTableSkipsOnceOpened ==
    (Flattened /\ DfEmpty(df)) =>
        /\ Mutations = {}
        /\ sheet = sheet0
        /\ pc \in {"open", "done", "aborted"}
        /\ pc = "aborted" => failed = "open"
        /\ pc = "done" => skipped /\ ops = <<"open">>

C5_Witness ==
    /\ pc = "done"
    /\ skipped
    /\ DfEmpty(df)
    /\ Len(all_records) > batch_size
    /\ sheet = StaleSheet
    /\ ops = <<"open">>

\* The lines of a parent record: its child list, none when the key is absent.
LinesOf(rec) ==
    IF HasKey(rec.v, ChildKey(script))
    THEN DictGet(rec.v, ChildKey(script), None).v
    ELSE <<>>

\* <<parent, line>> for every line of every fetched parent.
LinePairs ==
    UNION {{<<i, j>> : j \in 1..Len(LinesOf(all_records[i]))} :
              i \in 1..Len(all_records)}

\* (parent order, then line order within the parent)
PairBefore(p, q) == p[1] < q[1] \/ (p[1] = q[1] /\ p[2] <= q[2])

\* The place of pair p among the pairs in that order.
RankOf(p, pairs) == Cardinality({q \in pairs : PairBefore(q, p)})

Descriptions == [k \in 1..Len(df) |-> DictGet(df[k], "Description", None)]

\* C6: flattening yields one row per child line, so as many rows as the
\* parents have lines together, none for a parent whose list is empty or
\* absent, in parent order and in line order within a parent; a parent of
\* two lines followed by a parent of none yields the two rows of the first.
C6_OneRowPerLineInOrder ==
    Flattened =>
        /\ LET pairs == LinePairs
               descs == Descriptions
           IN  /\ Len(df) = Cardinality(pairs)
               /\ \A p \in pairs :
                     descs[RankOf(p, pairs)] =
                         DictGet(LinesOf(all_records[p[1]])[p[2]].v, "name", None)
        /\ (Len(all_records) = 2 /\ Len(LinesOf(all_records[1])) = 2
                /\ Len(LinesOf(all_records[2])) = 0) =>
              Descriptions = <<MkStr(ChildName(1, 1)), MkStr(ChildName(1, 2))>>

C6_Witness ==
    /\ Flattened
    /\ Len(all_records) = 2
    /\ Len(LinesOf(all_records[1])) = 2
    /\ HasKey(all_records[2].v, ChildKey(script))
    /\ Len(LinesOf(all_records[2])) = 0
    /\ Len(df) = 2

PoColumns ==
    <<"Company", "Created on", "Consumption Date", "PO Approved Date",
      "Order Reference", "PO Type", "Item Type", "Currency", "Item Category",
      "Description", "Partner", "Inco Term", "Payment Term", "Shipment Mode",
      "Total Quantity", "Subtotal", "Status">>

ExpnsColumns ==
    <<"Number", "Expense Date", "Creted Date", "Category", "Super Category",
      "Description", "Department", "ID", "Predicted Category", "Status",
      "Total", "Total In Currency">>

\* The columns that pass a number through instead of normalizing.
PassthroughColumns ==
    {"Total Quantity", "Subtotal", "Total", "Total In Currency"}

\* C10: every row has the columns of its dataset, all of them and in the
\* same order (17 for purchase orders, 12 for expense sheets), whichever
\* fields the line has, lacks or has false or null, and every normalized
\* column holds a string.
C10_FixedColumns ==
    Flattened =>
        \A k \in 1..Len(df) :
            /\ [c \in 1..Len(df[k]) |-> df[k][c][1]] =
                  (IF script = "po" THEN PoColumns ELSE ExpnsColumns)
            /\ Len(df[k]) = (IF script = "po" THEN 17 ELSE 12)
            /\ \A c \in 1..Len(df[k]) :
                  df[k][c][1] \notin PassthroughColumns => df[k][c][2].t = "str"

C10_Witness ==
    /\ Flattened
    /\ script = "po"
    /\ Len(df) >= 2
    /\ Len(LinesOf(all_records[1])) >= 2
    /\ ~HasKey(LinesOf(all_records[1])[2].v, "create_date")
    /\ DictGet(df[2], "Created on", None) = MkStr("")
    /\ Len(df[2]) = 17

\* The value shown at a cell: blank where the worksheet holds nothing.
CellAt(sh, r, c) == IF <<r, c>> \in DOMAIN sh THEN sh[<<r, c>>] ELSE MkStr("")

\* The value the table puts at a cell: the column name in the first row,
\* the values of row r - 1 in row r, nothing outside the table.
TableAt(table, r, c) ==
    IF c > Len(table[1]) \/ r > Len(table) + 1 THEN MkStr("")
    ELSE IF r = 1 THEN MkStr(table[1][c][1])
    ELSE IF Blank(table[r - 1][c][2]) THEN MkStr("")
    ELSE table[r - 1][c][2]

RowsInUse == {c[1] : c \in DOMAIN sheet} \cup 1..(Len(df) + 1)

\* C8: after a successful publish of a non-empty table the cleared columns
\* hold the header row and the table's rows and nothing of what was there
\* before, whatever was there; and a second publish of the same table
\* leaves the same content outside the timestamp cell.
C8_ReplaceAndIdempotent ==
    (pc = "done" /\ ~skipped) =>
        /\ \A c \in 1..Len(df[1]) : c \in ClearedColumns(script)
        /\ \A r \in RowsInUse : \A c \in ClearedColumns(script) :
              CellAt(sheet, r, c) = TableAt(df, r, c)
        /\ (prev.ok /\ prev.table = df) => Visible(sheet, script) = prev.visible

C8_Witness ==
    /\ pc = "done"
    /\ ~skipped
    /\ runs = 2
    /\ prev.ok
    /\ prev.table = df
    /\ <<5, 20>> \in DOMAIN sheet
    /\ sheet # Stamped(prev.visible, script, 0)
    /\ Visible(sheet, script) = prev.visible

Prefixes(seq) == {SubSeq(seq, 1, k) : k \in 0..Len(seq)}

====
